---- MODULE Spec2Model ----
(***************************************************************************)
(* Wallet ledger, purchase orchestration (airtime, data, electricity),     *)
(* VTPass webhook, requery sweep and Paystack funding of the VTU           *)
(* application, as a state machine over the wallet row, the Transaction    *)
(* table and the in-flight handlers.                                       *)
(*                                                                         *)
(* Money is counted in thousandths of a naira, so that an amount with      *)
(* three fractional digits (Decimal("300.005")) and the 2-decimal          *)
(* quantize of Wallet.clean / Transaction.clean are both representable.    *)
(* Time is counted in milliseconds.                                        *)
(***************************************************************************)
EXTENDS Integers, Sequences, FiniteSets, TLC

\* ------------------------------------------------------------------ units
NGN == 1000                       \* model units in one naira
MS_PER_MINUTE == 60000
MINUTE == MS_PER_MINUTE
HOUR == 60 * MINUTE
DAY == 24 * HOUR

\* ------------------------------------------------------ program constants
MAX_TRANSACTION == 100000 * NGN
MAX_BALANCE == 1000000 * NGN
MAX_FUND_LIMIT == 100000 * NGN
UNVERIFIED_SINGLE_LIMIT == 5000 * NGN
UNVERIFIED_DAILY_LIMIT == 20000 * NGN
UNVERIFIED_HOURLY_COUNT == 5
FAILED_COUNT_THRESHOLD == 5
COOLDOWN_CEILING == 1000 * NGN
DEFAULT_MAX_AGE_MINUTES == 10

None == "None"
NoRef == <<>>                     \* a null reference
NoPayload == [reference |-> NoRef, status |-> ""]
NoRow == [transaction_type |-> "", amount |-> 0, reference |-> NoRef, status |-> "",
          timestamp |-> 0, requery_attempts |-> 0]
NoTx == [pk |-> 0, row |-> NoRow]

\* ----------------------------------------------------------------- bounds
\* the clock starts at 0 and advances MaxTicks times, each time by the
\* sweep's default age
MaxTicks == 1
TickStep == DEFAULT_MAX_AGE_MINUTES * MINUTE

Procs == {"p1", "p2"}

\* amounts a request can carry: the airtime and electricity views pass
\* Decimal(amount_raw) unquantized; data amounts come from DATA_PLANS
RequestAmounts == {500 * NGN, 300 * NGN + 5}
DATA_PLANS == {500 * NGN}

\* balances the wallet holds before the first modelled request
InitBalances == {700 * NGN, MAX_BALANCE - 300 * NGN}

\* Paystack payments that can be verified, with the amount Paystack reports
PaystackRefs == {<<"PS", 0, 1>>}
PaystackAmount(ref) == 500 * NGN + 10

\* provider replies to a purchase: top-level code and nested
\* content.transactions.status ("" when the body carries none, "initiated"
\* for a status none of the rules names)
ProviderCodes == {"000", "0000", "016", "ERROR"}
ProviderStatuses == {"delivered", "success", "pending", "initiated", "failed", ""}
ProviderReplies == ProviderCodes \X ProviderStatuses

\* one reply of each outcome of the finalize rules
OutcomeReplies == {<<"000", "delivered">>, <<"000", "pending">>, <<"016", "failed">>}

\* status strings a webhook payload can carry
WebhookStatuses == {"delivered", "failed", "pending", "garbage"}

\* ---------------------------------------------------------------- decimal
\* Decimal.quantize(Decimal("0.01")) under the default ROUND_HALF_EVEN
Quantize(x) ==
    LET r == x % 10
        f == x - r
    IN  IF r < 5 THEN f
        ELSE IF r > 5 THEN f + 10
        ELSE IF (f \div 10) % 2 = 0 THEN f ELSE f + 10

\* ------------------------------------------------------------------ state
VARIABLES
    balance,        \* Wallet.balance of the user's wallet
    transactions,   \* the Transaction table, one row per pk (the index)
    orch,           \* per request: the purchase_* or Wallet call in progress
    calls,          \* references the provider has received a purchase call for,
                    \* and the meter verifications it has received
    vtpass_client,  \* providers._vtpass_client is set
    hook,           \* the last vtpass_webhook request and its response, where observed
    sweep,          \* the recheck_pending_vtu run in progress
    now,            \* the clock, in ms
    settings,       \* AppSettings row and VTPass keys
    user,           \* the acting user
    ledger,         \* per pk: what reserve removed and refunds credited
    gateway,        \* the last VTPassClient purchase call: the raw reply and
                    \* what the call gave its caller
    peer            \* another user: the wallet's balance and the position of
                    \* its verify_payment request

vars == <<balance, transactions, orch, calls, vtpass_client, hook, sweep,
          now, settings, user, ledger, gateway, peer>>

\* ------------------------------------------------------------- the ledger
\* a Wallet.clean that checks only the sign of the balance
WalletCleanNoCap(b) == b >= 0

\* Wallet.clean: raises on a balance outside [0, MAX_BALANCE]
WalletCleanOK(b) == b >= 0 /\ b <= MAX_BALANCE

\* Wallet.clean: the balance it stores
WalletCleanValue(b) == Quantize(b)

\* Transaction.clean: raises on an amount outside (0, MAX_TRANSACTION]
TransactionCleanOK(a) == a > 0 /\ a <= MAX_TRANSACTION

\* Transaction.clean: the amount it stores
TransactionCleanValue(a) == Quantize(a)

\* a reference column without the unique constraint
ReferenceNeverTaken(ref) == FALSE

\* the unique constraint on Transaction.reference (null never collides)
ReferenceTaken(ref) ==
    ref # NoRef /\ \E i \in DOMAIN transactions : transactions[i].reference = ref

\* Transaction.objects.filter(reference=ref): the pks
PksByReference(ref) == {i \in DOMAIN transactions : transactions[i].reference = ref}

NewRow(type, amount, ref, status) ==
    [transaction_type |-> type, amount |-> TransactionCleanValue(amount),
     reference |-> ref, status |-> status, timestamp |-> now,
     requery_attempts |-> 0]

\* ------------------------------------------------------- limits and fraud
is_user_verified == FALSE

get_transaction_limits ==
    [single_limit |-> UNVERIFIED_SINGLE_LIMIT,
     daily_limit |-> UNVERIFIED_DAILY_LIMIT,
     hourly_count |-> UNVERIFIED_HOURLY_COUNT]

RECURSIVE SumAmounts(_)
SumAmounts(S) ==
    IF S = {} THEN 0
    ELSE LET i == CHOOSE j \in S : TRUE
         IN  transactions[i].amount + SumAmounts(S \ {i})

today_start == now - (now % DAY)

today_total ==
    SumAmounts({i \in DOMAIN transactions :
        /\ transactions[i].transaction_type = "purchase"
        /\ transactions[i].status = "completed"
        /\ transactions[i].timestamp >= today_start})

hourly_count ==
    Cardinality({i \in DOMAIN transactions :
        /\ transactions[i].transaction_type = "purchase"
        /\ transactions[i].timestamp >= now - HOUR})

failed_count ==
    Cardinality({i \in DOMAIN transactions :
        /\ transactions[i].status = "failed"
        /\ transactions[i].timestamp >= now - DAY})

\* limits checked without the daily total
check_single_and_hourly(amount) ==
    /\ ~(amount > get_transaction_limits.single_limit)
    /\ ~(hourly_count >= get_transaction_limits.hourly_count)

\* check_transaction_limits: TRUE when it returns, FALSE when it raises
check_transaction_limits(amount) ==
    /\ ~(amount > get_transaction_limits.single_limit)
    /\ ~(today_total + amount > get_transaction_limits.daily_limit)
    /\ ~(hourly_count >= get_transaction_limits.hourly_count)

\* check_suspicious_activity: TRUE when it returns, FALSE when it raises
check_suspicious_activity ==
    /\ ~(failed_count > FAILED_COUNT_THRESHOLD)
    /\ ~(now - user.date_joined < 5 * MINUTE
         /\ get_transaction_limits.single_limit > COOLDOWN_CEILING)

check_maintenance_mode == ~settings.maintenance_mode

\* a gate that looks at the fraud toggle before the maintenance flag
run_fraud_checks_toggle_first(amount) ==
    settings.fraud_checks_enabled =>
        /\ check_maintenance_mode
        /\ check_transaction_limits(amount)
        /\ check_suspicious_activity

\* a gate that ignores the fraud toggle
run_fraud_checks_always(amount) ==
    /\ check_maintenance_mode
    /\ check_transaction_limits(amount)
    /\ check_suspicious_activity

\* run_fraud_checks: TRUE when it returns, FALSE when it raises FraudCheckError
run_fraud_checks(amount) ==
    /\ check_maintenance_mode
    /\ (settings.fraud_checks_enabled =>
            check_transaction_limits(amount) /\ check_suspicious_activity)

\* ------------------------------------------------------- provider gateway
\* get_vtpass_client: TRUE when it returns a client, FALSE when it raises
\* RuntimeError (a key is missing and no client was built before)
get_vtpass_client_ok ==
    vtpass_client \/ (settings.VTPASS_API_KEY # None /\ settings.VTPASS_SECRET_KEY # None)

\* reference prefixes of the three service lines
RefPrefix(line) ==
    CASE line = "airtime" -> "VTU"
      [] line = "data" -> "DATA"
      [] line = "electricity" -> "ELEC"

\* client.verify_meter: the verification request for the user's meter
MeterVerification(user_id) == <<"merchant-verify", user_id>>

\* _generate_request_id and the f-strings of data.py / electricity.py
_generate_request_id(line, user_id, ts) == <<RefPrefix(line), user_id, ts>>


\* ------------------------------------------------------- the VTPass client
\* what client.post and response.json() can come to: one of the httpx
\* failures, a body that is not JSON, or a parsed JSON value
TransportFailures == {"ConnectTimeout", "ReadTimeout", "HTTPError", "non-JSON"}

\* a parsed JSON value: its Python type, for a dict its keys, its "code" and
\* its content.transactions.status
NoJson == [type |-> "none", keys |-> {}, code |-> "", status |-> ""]

JsonValues ==
    {[NoJson EXCEPT !.type = t] : t \in {"str", "list"}}
    \cup {[NoJson EXCEPT !.type = "dict"]}
    \cup {[type |-> "dict", keys |-> {"content"}, code |-> "", status |-> s] :
            s \in {"delivered", "failed"}}
    \cup {[type |-> "dict", keys |-> {"code"}, code |-> c, status |-> ""] :
            c \in {"000", "016"}}
    \cup {[type |-> "dict", keys |-> {"code", "content"}, code |-> r[1], status |-> r[2]] :
            r \in OutcomeReplies}

RawReplies ==
    {[kind |-> k, json |-> NoJson] : k \in TransportFailures}
    \cup {[kind |-> "JSON", json |-> j] : j \in JsonValues}

\* VTPassClient._post: raises VTPassError, or returns the parsed body
_post(raw) ==
    IF raw.kind = "ConnectTimeout"
    THEN [raised |-> "VTPassError", data |-> NoJson]
    ELSE IF raw.kind = "ReadTimeout"
    THEN [raised |-> "VTPassError", data |-> NoJson]
    ELSE IF raw.kind = "HTTPError"
    THEN [raised |-> "VTPassError", data |-> NoJson]
    ELSE IF raw.kind = "non-JSON"
    THEN [raised |-> "VTPassError", data |-> NoJson]
    ELSE [raised |-> None, data |-> raw.json]

\* the normalisation of buy_airtime, buy_data and pay_electricity: a body
\* that is not a dict becomes {"code": "ERROR", "raw": ...}, a dict without
\* "code" gets "ERROR"
Normalized(r) ==
    IF r.raised # None THEN r
    ELSE IF r.data.type # "dict"
    THEN [r EXCEPT !.data = [type |-> "dict", keys |-> {"code", "raw"},
                             code |-> "ERROR", status |-> ""]]
    ELSE IF "code" \notin r.data.keys
    THEN [r EXCEPT !.data.keys = @ \cup {"code"}, !.data.code = "ERROR"]
    ELSE r

\* a purchase call that hands the parsed body to its caller as it is
buy_airtime_as_parsed(raw) == _post(raw)

\* VTPassClient.buy_airtime
buy_airtime(raw) == Normalized(_post(raw))

\* VTPassClient.buy_data
buy_data(raw) == Normalized(_post(raw))

\* VTPassClient.pay_electricity
pay_electricity(raw) == Normalized(_post(raw))

\* no purchase call made yet
NoCall == [for |-> None, raw |-> [kind |-> None, json |-> NoJson],
           result |-> [raised |-> None, data |-> NoJson]]

\* the other user before any request: an empty wallet
NoPeer == [balance |-> 0, pc |-> "idle", reference |-> NoRef, result |-> None]

\* vtpass_response.get("code", ""), stripped
ResponseCode(data) == IF "code" \in data.keys THEN data.code ELSE ""

\* (content.get("transactions") or {}).get("status", ""), lowered
ResponseStatus(data) == IF "content" \in data.keys THEN data.status ELSE ""

\* ------------------------------------------------- purchase orchestration
\* wallet: the balance of the Wallet row the call holds in memory since its
\* reserve block
IdleOrch == [pc |-> "idle", line |-> None, amount |-> 0, request_id |-> NoRef,
             tx |-> 0, result |-> None, wallet |-> 0]

\* the call of p ends by raising exc
Raise(p, exc) ==
    orch' = [orch EXCEPT ![p] = [IdleOrch EXCEPT !.pc = "done", !.result = exc,
                                                 !.tx = orch[p].tx]]

\* the call of p returns (tx, response)
Return(p) == Raise(p, "returned")

\* purchase_airtime up to the reserve block: amount check, fraud checks,
\* client lookup, request id from the clock
purchase_airtime_start(p, amount) ==
    /\ orch[p].pc = "idle"
    /\ LET o == [orch[p] EXCEPT !.line = "airtime", !.amount = amount] IN
       IF amount <= 0
       THEN Raise(p, "ValueError")
            /\ UNCHANGED vtpass_client
       ELSE IF ~run_fraud_checks(amount)
       THEN Raise(p, "FraudCheckError")
            /\ UNCHANGED vtpass_client
       ELSE IF ~get_vtpass_client_ok
       THEN Raise(p, "RuntimeError")
            /\ UNCHANGED vtpass_client
       ELSE /\ orch' = [orch EXCEPT ![p] = [o EXCEPT !.pc = "reserve",
                           !.request_id = _generate_request_id("airtime", user.id, now)]]
            /\ vtpass_client' = TRUE
    /\ UNCHANGED <<balance, transactions, calls, hook, sweep, now, settings, user, gateway, peer, ledger>>

\* purchase_data up to the reserve block: plan lookup, fraud checks
purchase_data_start(p, amount) ==
    /\ orch[p].pc = "idle"
    /\ amount \in DATA_PLANS
    /\ LET o == [orch[p] EXCEPT !.line = "data", !.amount = amount] IN
       IF ~run_fraud_checks(amount)
       THEN Raise(p, "FraudCheckError")
       ELSE orch' = [orch EXCEPT ![p] = [o EXCEPT !.pc = "reserve"]]
    /\ UNCHANGED <<balance, transactions, calls, vtpass_client, hook, sweep, now,
                   settings, user, gateway, peer, ledger>>

\* an electricity purchase that goes to reserve without verifying the meter
purchase_electricity_start_unverified(p, amount, verify) ==
    /\ orch[p].pc = "idle"
    /\ amount > 0 /\ run_fraud_checks(amount) /\ get_vtpass_client_ok
    /\ vtpass_client' = TRUE
    /\ orch' = [orch EXCEPT ![p] = [@ EXCEPT !.pc = "reserve",
                    !.line = "electricity", !.amount = amount]]
    /\ UNCHANGED <<balance, transactions, calls, hook, sweep, now, settings, user, gateway, peer, ledger>>

\* an electricity purchase that verifies the meter before the fraud checks
purchase_electricity_start_verify_first(p, amount, verify) ==
    /\ orch[p].pc = "idle"
    /\ amount > 0 /\ get_vtpass_client_ok
    /\ vtpass_client' = TRUE
    /\ calls' = calls \cup {MeterVerification(user.id)}
    /\ IF verify = "VTPassError" THEN Raise(p, "VTPassError")
       ELSE IF verify # "000" THEN Raise(p, "MeterVerificationError")
       ELSE IF ~run_fraud_checks(amount) THEN Raise(p, "FraudCheckError")
       ELSE orch' = [orch EXCEPT ![p] = [@ EXCEPT !.pc = "reserve",
                        !.line = "electricity", !.amount = amount]]
    /\ UNCHANGED <<balance, transactions, hook, sweep, now, settings, user, gateway, peer, ledger>>

\* purchase_electricity up to the reserve block: amount check, fraud checks,
\* client lookup, verify_meter (verify is the reply's code, or the error raised)
purchase_electricity_start(p, amount, verify) ==
    /\ orch[p].pc = "idle"
    /\ LET o == [orch[p] EXCEPT !.line = "electricity", !.amount = amount] IN
       IF amount <= 0
       THEN Raise(p, "ValueError")
            /\ UNCHANGED <<vtpass_client, calls>>
       ELSE IF ~run_fraud_checks(amount)
       THEN Raise(p, "FraudCheckError")
            /\ UNCHANGED <<vtpass_client, calls>>
       ELSE IF ~get_vtpass_client_ok
       THEN Raise(p, "RuntimeError")
            /\ UNCHANGED <<vtpass_client, calls>>
       ELSE IF verify = "VTPassError"
       THEN Raise(p, "VTPassError")
            /\ vtpass_client' = TRUE
            /\ calls' = calls \cup {MeterVerification(user.id)}
       ELSE IF verify # "000"
       THEN Raise(p, "MeterVerificationError")
            /\ vtpass_client' = TRUE
            /\ calls' = calls \cup {MeterVerification(user.id)}
       ELSE /\ orch' = [orch EXCEPT ![p] = [o EXCEPT !.pc = "reserve"]]
            /\ vtpass_client' = TRUE
            /\ calls' = calls \cup {MeterVerification(user.id)}
    /\ UNCHANGED <<balance, transactions, hook, sweep, now, settings, user, gateway, peer, ledger>>

\* a reserve block that makes no balance check
NeverInsufficient(p) == FALSE

\* the balance check of the reserve block, on the wallet row read under the lock
InsufficientBalance(p) == balance < orch[p].amount

\* the reserve block under the wallet lock: balance check, record created
\* pending under ref, wallet debited and saved; any raise rolls the block back.
\* TRUE when the block commits.
ReserveCommits(p, ref) ==
    /\ ~InsufficientBalance(p)
    /\ TransactionCleanOK(orch[p].amount)
    /\ ~ReferenceTaken(ref)
    /\ WalletCleanOK(balance - orch[p].amount)

\* the exception a reserve block that does not commit raises
ReserveError(p, ref) ==
    IF InsufficientBalance(p) THEN "InsufficientBalanceError"
    ELSE IF ~TransactionCleanOK(orch[p].amount) THEN "ValidationError"
    ELSE IF ReferenceTaken(ref) THEN "IntegrityError"
    ELSE "ValidationError"

\* a reserve block that commits its record and loses its debit
ReserveWritesNoDebit(p, ref) ==
    /\ balance' = balance
    /\ transactions' = Append(transactions,
            NewRow("purchase", orch[p].amount, ref, "pending"))
    /\ ledger' = Append(ledger, [debit |-> 0, refund |-> 0])

\* the writes of a reserve block that commits
ReserveWrites(p, ref) ==
    /\ balance' = WalletCleanValue(balance - orch[p].amount)
    /\ transactions' = Append(transactions,
            NewRow("purchase", orch[p].amount, ref, "pending"))
    /\ ledger' = Append(ledger, [debit |-> balance - balance', refund |-> 0])

\* p waits for the provider's reply to the call it issued for ref
Issued(p, ref) ==
    /\ calls' = calls \cup {ref}
    /\ orch' = [orch EXCEPT ![p].pc = "wait", ![p].request_id = ref,
                            ![p].tx = Len(transactions) + 1, ![p].wallet = balance']

\* purchase_airtime from the reserve block to client.buy_airtime being issued
purchase_airtime_reserve(p) ==
    /\ orch[p].pc = "reserve" /\ orch[p].line = "airtime"
    /\ LET ref == orch[p].request_id IN
       IF ReserveCommits(p, ref)
       THEN ReserveWrites(p, ref) /\ Issued(p, ref)
       ELSE /\ Raise(p, ReserveError(p, ref))
            /\ UNCHANGED <<balance, transactions, ledger, calls>>
    /\ UNCHANGED <<vtpass_client, hook, sweep, now, settings, user, gateway, peer>>

\* purchase_data from the reserve block to client.buy_data being issued; the
\* client is looked up after the block has committed
purchase_data_reserve(p) ==
    /\ orch[p].pc = "reserve" /\ orch[p].line = "data"
    /\ LET ref == _generate_request_id("data", user.id, now) IN
       IF ~ReserveCommits(p, ref)
       THEN /\ Raise(p, ReserveError(p, ref))
            /\ UNCHANGED <<balance, transactions, ledger, calls, vtpass_client>>
       ELSE IF ~get_vtpass_client_ok
       THEN /\ ReserveWrites(p, ref)
            /\ orch' = [orch EXCEPT ![p] = [IdleOrch EXCEPT !.pc = "done",
                            !.result = "RuntimeError", !.tx = Len(transactions) + 1]]
            /\ UNCHANGED <<calls, vtpass_client>>
       ELSE /\ ReserveWrites(p, ref)
            /\ Issued(p, ref)
            /\ vtpass_client' = TRUE
    /\ UNCHANGED <<hook, sweep, now, settings, user, gateway, peer>>

\* purchase_electricity from the reserve block to client.pay_electricity
\* being issued
purchase_electricity_reserve(p) ==
    /\ orch[p].pc = "reserve" /\ orch[p].line = "electricity"
    /\ LET ref == _generate_request_id("electricity", user.id, now) IN
       IF ReserveCommits(p, ref)
       THEN ReserveWrites(p, ref) /\ Issued(p, ref)
       ELSE /\ Raise(p, ReserveError(p, ref))
            /\ UNCHANGED <<balance, transactions, ledger, calls>>
    /\ UNCHANGED <<vtpass_client, hook, sweep, now, settings, user, gateway, peer>>

\* the finalize rules: the status each line gives the record for a reply
purchase_airtime_rule(code, status) ==
    IF code \in {"000", "0000"} /\ status \in {"delivered", "success"} THEN "completed"
    ELSE IF status \in {"pending", "processing"} THEN "pending"
    ELSE "failed"

purchase_data_rule(code, status) ==
    IF code \in {"000", "0000"} /\ status \in {"delivered", "success"} THEN "completed"
    ELSE IF status \in {"pending", "processing", ""} THEN "pending"
    ELSE "failed"

purchase_electricity_rule(code, status) ==
    IF code = "000" /\ status = "delivered" THEN "completed"
    ELSE IF status \in {"pending", "processing", ""} THEN "pending"
    ELSE "failed"

\* a finalize block that credits the refund to the Wallet row the call has
\* held in memory since its reserve block
FinalizeBlockStale(p, status, refund) ==
    LET pk == orch[p].tx
        credited == orch[p].wallet + refund
    IN  IF status # "failed"
        THEN /\ transactions' = [transactions EXCEPT ![pk].status = status]
             /\ Return(p)
             /\ UNCHANGED <<balance, ledger>>
        ELSE IF ~WalletCleanOK(credited)
        THEN Raise(p, "ValidationError") /\ UNCHANGED <<balance, transactions, ledger>>
        ELSE /\ transactions' = [transactions EXCEPT ![pk].status = "failed"]
             /\ balance' = WalletCleanValue(credited)
             /\ ledger' = [ledger EXCEPT ![pk].refund = @ + (balance' - balance)]
             /\ Return(p)

\* the finalize block under the wallet lock: wallet and record re-read, the
\* record's status written, and on "failed" the wallet credited by refund and
\* saved; a raise in Wallet.save rolls the block back
FinalizeBlock(p, status, refund) ==
    LET pk == orch[p].tx
        credited == balance + refund
    IN  IF status # "failed"
        THEN /\ transactions' = [transactions EXCEPT ![pk].status = status]
             /\ Return(p)
             /\ UNCHANGED <<balance, ledger>>
        ELSE IF ~WalletCleanOK(credited)
        THEN Raise(p, "ValidationError") /\ UNCHANGED <<balance, transactions, ledger>>
        ELSE /\ transactions' = [transactions EXCEPT ![pk].status = "failed"]
             /\ balance' = WalletCleanValue(credited)
             /\ ledger' = [ledger EXCEPT ![pk].refund = @ + (balance' - balance)]
             /\ Return(p)

\* an orchestration that answers a Gateway error by failing the record and
\* refunding it before the error propagates
post_raises_refund(p) ==
    /\ orch[p].pc = "wait"
    /\ Raise(p, "VTPassError")
    /\ LET pk == orch[p].tx
           credited == balance + transactions[pk].amount
       IN  IF ~WalletCleanOK(credited)
           THEN UNCHANGED <<balance, transactions, ledger>>
           ELSE /\ transactions' = [transactions EXCEPT ![pk].status = "failed"]
                /\ balance' = WalletCleanValue(credited)
                /\ ledger' = [ledger EXCEPT ![pk].refund = @ + (balance' - balance)]
    /\ UNCHANGED <<calls, vtpass_client, hook, sweep, now, settings, user, gateway, peer>>

\* VTPassClient._post raises VTPassError (connect timeout, read timeout,
\* network error, non-JSON body); purchase_* does not catch it
post_raises(p) ==
    /\ orch[p].pc = "wait"
    /\ Raise(p, "VTPassError")
    /\ UNCHANGED <<balance, transactions, calls, vtpass_client, hook, sweep, now,
                   settings, user, gateway, peer, ledger>>

\* the reply of buy_airtime arrives; the refund is the request's amount
purchase_airtime_finalize(p, code, status) ==
    /\ orch[p].pc = "wait" /\ orch[p].line = "airtime"
    /\ FinalizeBlock(p, purchase_airtime_rule(code, status), orch[p].amount)
    /\ UNCHANGED <<calls, vtpass_client, hook, sweep, now, settings, user, gateway, peer>>

\* the reply of buy_data arrives; the refund is the record's stored amount
purchase_data_finalize(p, code, status) ==
    /\ orch[p].pc = "wait" /\ orch[p].line = "data"
    /\ FinalizeBlock(p, purchase_data_rule(code, status), transactions[orch[p].tx].amount)
    /\ UNCHANGED <<calls, vtpass_client, hook, sweep, now, settings, user, gateway, peer>>

\* the reply of pay_electricity arrives; the refund is the record's stored amount
purchase_electricity_finalize(p, code, status) ==
    /\ orch[p].pc = "wait" /\ orch[p].line = "electricity"
    /\ FinalizeBlock(p, purchase_electricity_rule(code, status), transactions[orch[p].tx].amount)
    /\ UNCHANGED <<calls, vtpass_client, hook, sweep, now, settings, user, gateway, peer>>


\* the provider's reply to the purchase call of p reaches the client: the
\* call raises or returns to purchase_*
client_purchase_call(p, raw) ==
    /\ orch[p].pc = "wait"
    /\ gateway.for # p
    /\ gateway' = [for |-> p, raw |-> raw,
                   result |-> IF orch[p].line = "airtime" THEN buy_airtime(raw)
                              ELSE IF orch[p].line = "data" THEN buy_data(raw)
                              ELSE pay_electricity(raw)]
    /\ UNCHANGED <<balance, transactions, orch, calls, vtpass_client, hook, sweep,
                   now, settings, user, ledger, peer>>

\* purchase_* goes on with what the client gave it: the error propagates,
\* or code and status are read off the result and the finalize block runs
purchase_resume(p) ==
    /\ orch[p].pc = "wait"
    /\ gateway.for = p
    /\ LET code == ResponseCode(gateway.result.data)
           vtpass_status == ResponseStatus(gateway.result.data)
       IN  IF gateway.result.raised # None
           THEN post_raises(p)
           ELSE \/ purchase_airtime_finalize(p, code, vtpass_status)
                \/ purchase_data_finalize(p, code, vtpass_status)
                \/ purchase_electricity_finalize(p, code, vtpass_status)

\* ---------------------------------------------------------------- webhook
\* hmac.new(secret, payload, sha512).hexdigest()
Hmac(secret, payload) == [key |-> secret, msg |-> payload]

\* a signature check that is skipped whatever the configuration
verify_vtpass_signature_skipped(payload, signature) == None

\* verify_vtpass_signature: None when no secret is configured
verify_vtpass_signature(payload, signature) ==
    IF settings.VTPASS_SECRET_KEY = None THEN None
    ELSE IF Hmac(settings.VTPASS_SECRET_KEY, payload) = signature THEN "True" ELSE "False"

\* the status vtpass_webhook gives the record for a pushed status string
vtpass_webhook_rule(status) ==
    IF status \in {"delivered", "success", "successful"} THEN "completed"
    ELSE IF status \in {"failed", "reversed"} THEN "failed"
    ELSE "pending"

NoHook == [data |-> NoPayload, http |-> 0]

\* payloads: every status for the reference of a purchase row, and one
\* payload each with an unknown reference and with none
PurchaseReferences ==
    {transactions[i].reference :
        i \in {j \in DOMAIN transactions : transactions[j].transaction_type = "purchase"}}

WebhookPayloads(statuses) ==
    [reference : PurchaseReferences, status : statuses]
    \cup [reference : {<<"REF", 0, 0>>, NoRef}, status : {"delivered"}]

\* signatures a request can carry: none, the provider's HMAC of the body, or
\* the HMAC of the body under a key that is not the provider's
NoSignature == [key |-> "", msg |-> NoPayload]
WebhookSignatures(data) ==
    {NoSignature, Hmac("secret-key", data), Hmac("wrong-key", data)}

\* a handler that looks the record up without checking that the payload
\* carries a reference
vtpass_webhook_response_unchecked(data, signature) ==
    IF verify_vtpass_signature(data, signature) = "False" THEN 401
    ELSE IF PksByReference(data.reference) = {} THEN 404
    ELSE 200

\* the HTTP status vtpass_webhook answers with
vtpass_webhook_response(data, signature) ==
    IF verify_vtpass_signature(data, signature) = "False" THEN 401
    ELSE IF data.reference = NoRef THEN 400
    ELSE IF PksByReference(data.reference) = {} THEN 404
    ELSE 200

\* vtpass_webhook: signature check, reference lookup, tx.status set from the
\* payload, tx.save(). It takes no lock. Of the columns modelled only status
\* changes after a row is created, so the row tx.save() writes back is the
\* current row with the new status, and the handler is one step at its save.
\* observed: the request and its response are kept in hook.
vtpass_webhook(data, signature, observed) ==
    /\ IF vtpass_webhook_response(data, signature) = 200
       THEN LET pk == CHOOSE i \in PksByReference(data.reference) : TRUE
            IN  transactions' = [transactions EXCEPT ![pk] =
                    [@ EXCEPT !.status = vtpass_webhook_rule(data.status),
                              !.amount = TransactionCleanValue(@)]]
       ELSE transactions' = transactions
    /\ hook' = IF observed
               THEN [data |-> data, http |-> vtpass_webhook_response(data, signature)]
               ELSE hook
    /\ UNCHANGED <<balance, orch, calls, vtpass_client, sweep, now, settings, user, gateway, peer, ledger>>

\* ------------------------------------------------------------------ sweep
\* replies of the provider's requery endpoint
RequeryReplies == {"404", "delivered", "failed", "pending", "timeout"}

\* check_and_get_transaction_status on a reply: None for a 404, the mapped
\* status, or "VTPassError" when it raises
check_and_get_transaction_status(reply) ==
    IF reply = "404" THEN None
    ELSE IF reply = "timeout" THEN "VTPassError"
    ELSE IF reply \in {"delivered", "success"} THEN "completed"
    ELSE IF reply \in {"failed", "reversed"} THEN "failed"
    ELSE "pending"

ZeroStats == [checked |-> 0, completed |-> 0, failed |-> 0, still_pending |-> 0, errors |-> 0]

IdleSweep == [pc |-> "idle", queue |-> <<>>, stats |-> ZeroStats]

MaxAges == {0, DEFAULT_MAX_AGE_MINUTES}

\* a queryset without the status filter
pending_qs_any_status(max_age_minutes) ==
    {i \in DOMAIN transactions :
        /\ transactions[i].timestamp <= now - max_age_minutes * MINUTE
        /\ transactions[i].transaction_type = "purchase"}

\* the rows pending_qs selects, as the pks
pending_qs(max_age_minutes) ==
    {i \in DOMAIN transactions :
        /\ transactions[i].status = "pending"
        /\ transactions[i].timestamp <= now - max_age_minutes * MINUTE
        /\ transactions[i].transaction_type = "purchase"}

\* the rows of S as read by the loop, newest first (Meta.ordering)
RECURSIVE Fetch(_)
Fetch(S) ==
    IF S = {} THEN <<>>
    ELSE LET m == CHOOSE i \in S : \A j \in S :
                    \/ transactions[j].timestamp < transactions[i].timestamp
                    \/ (transactions[j].timestamp = transactions[i].timestamp /\ j <= i)
         IN  <<[pk |-> m, row |-> transactions[m]]>> \o Fetch(S \ {m})

\* recheck_pending_vtu up to the loop: the queryset is evaluated
recheck_pending_vtu_select(max_age_minutes) ==
    /\ sweep.pc = "idle"
    /\ sweep' = [pc |-> "loop", queue |-> Fetch(pending_qs(max_age_minutes)),
                 stats |-> ZeroStats]
    /\ UNCHANGED <<balance, transactions, orch, calls, vtpass_client, hook, now,
                   settings, user, gateway, peer, ledger>>

\* a loop that counts a reference the provider does not know twice as
\* checked and not as failed
recheck_pending_vtu_item_uncounted(reply, observed) ==
    /\ sweep.pc = "loop" /\ sweep.queue # <<>>
    /\ LET tx == Head(sweep.queue)
           vtpass_status == check_and_get_transaction_status(reply)
           counted(k) == IF observed
                         THEN [sweep.stats EXCEPT !.checked = @ + 1, ![k] = @ + 1]
                         ELSE sweep.stats
           saved(st) == [transactions EXCEPT ![tx.pk] =
                            [tx.row EXCEPT !.status = st, !.amount = TransactionCleanValue(@)]]
       IN  CASE vtpass_status = None ->
                  /\ transactions' = saved("failed")
                  /\ sweep' = [sweep EXCEPT !.queue = Tail(@), !.stats = counted("checked")]
             [] vtpass_status = "completed" ->
                  /\ transactions' = saved("completed")
                  /\ sweep' = [sweep EXCEPT !.queue = Tail(@), !.stats = counted("completed")]
             [] vtpass_status = "failed" ->
                  /\ transactions' = saved("failed")
                  /\ sweep' = [sweep EXCEPT !.queue = Tail(@), !.stats = counted("failed")]
             [] vtpass_status = "VTPassError" ->
                  /\ transactions' = transactions
                  /\ sweep' = [sweep EXCEPT !.queue = Tail(@), !.stats = counted("errors")]
             [] OTHER ->
                  /\ transactions' = transactions
                  /\ sweep' = [sweep EXCEPT !.queue = Tail(@), !.stats = counted("still_pending")]
    /\ UNCHANGED <<balance, orch, calls, vtpass_client, hook, now, settings, user, gateway, peer, ledger>>

\* a loop that a Gateway error ends: the error is counted and the rows still
\* selected are dropped
recheck_pending_vtu_item_abort(reply, observed) ==
    /\ sweep.pc = "loop" /\ sweep.queue # <<>>
    /\ LET tx == Head(sweep.queue)
           vtpass_status == check_and_get_transaction_status(reply)
           counted(k) == IF observed
                         THEN [sweep.stats EXCEPT !.checked = @ + 1, ![k] = @ + 1]
                         ELSE sweep.stats
           saved(st) == [transactions EXCEPT ![tx.pk] =
                            [tx.row EXCEPT !.status = st, !.amount = TransactionCleanValue(@)]]
       IN  CASE vtpass_status = None ->
                  /\ transactions' = saved("failed")
                  /\ sweep' = [sweep EXCEPT !.queue = Tail(@), !.stats = counted("failed")]
             [] vtpass_status = "completed" ->
                  /\ transactions' = saved("completed")
                  /\ sweep' = [sweep EXCEPT !.queue = Tail(@), !.stats = counted("completed")]
             [] vtpass_status = "failed" ->
                  /\ transactions' = saved("failed")
                  /\ sweep' = [sweep EXCEPT !.queue = Tail(@), !.stats = counted("failed")]
             [] vtpass_status = "VTPassError" ->
                  /\ transactions' = transactions
                  /\ sweep' = [sweep EXCEPT !.queue = <<>>, !.stats = counted("errors")]
             [] OTHER ->
                  /\ transactions' = transactions
                  /\ sweep' = [sweep EXCEPT !.queue = Tail(@), !.stats = counted("still_pending")]
    /\ UNCHANGED <<balance, orch, calls, vtpass_client, hook, now, settings, user, gateway, peer, ledger>>

\* one iteration of the loop: requery the row's reference, then set the
\* status on the row as it was read and save it, or only count
\* observed: the counters of the run are kept in sweep.stats.
recheck_pending_vtu_item(reply, observed) ==
    /\ sweep.pc = "loop" /\ sweep.queue # <<>>
    /\ LET tx == Head(sweep.queue)
           vtpass_status == check_and_get_transaction_status(reply)
           counted(k) == IF observed
                         THEN [sweep.stats EXCEPT !.checked = @ + 1, ![k] = @ + 1]
                         ELSE sweep.stats
           saved(st) == [transactions EXCEPT ![tx.pk] =
                            [tx.row EXCEPT !.status = st, !.amount = TransactionCleanValue(@)]]
       IN  CASE vtpass_status = None ->
                  /\ transactions' = saved("failed")
                  /\ sweep' = [sweep EXCEPT !.queue = Tail(@), !.stats = counted("failed")]
             [] vtpass_status = "completed" ->
                  /\ transactions' = saved("completed")
                  /\ sweep' = [sweep EXCEPT !.queue = Tail(@), !.stats = counted("completed")]
             [] vtpass_status = "failed" ->
                  /\ transactions' = saved("failed")
                  /\ sweep' = [sweep EXCEPT !.queue = Tail(@), !.stats = counted("failed")]
             [] vtpass_status = "VTPassError" ->
                  /\ transactions' = transactions
                  /\ sweep' = [sweep EXCEPT !.queue = Tail(@), !.stats = counted("errors")]
             [] OTHER ->
                  /\ transactions' = transactions
                  /\ sweep' = [sweep EXCEPT !.queue = Tail(@), !.stats = counted("still_pending")]
    /\ UNCHANGED <<balance, orch, calls, vtpass_client, hook, now, settings, user, gateway, peer, ledger>>

\* the loop is over: the stats are returned
recheck_pending_vtu_return ==
    /\ sweep.pc = "loop" /\ sweep.queue = <<>>
    /\ sweep' = IdleSweep
    /\ UNCHANGED <<balance, transactions, orch, calls, vtpass_client, hook, now,
                   settings, user, gateway, peer, ledger>>

\* ---------------------------------------------------------------- funding
\* Wallet.deposit: TRUE when it returns, FALSE when it raises ValueError
deposit_ok(amount) ==
    /\ amount > 0
    /\ Quantize(amount) <= MAX_TRANSACTION
    /\ balance + Quantize(amount) <= MAX_BALANCE
    /\ WalletCleanOK(balance + Quantize(amount))
    /\ TransactionCleanOK(Quantize(amount))

\* verify_payment for a payment Paystack reports successful: the fund limit,
\* then under the wallet lock the duplicate check and Wallet.deposit; a raise
\* is caught by the view and rolls the block back
verify_payment(reference) ==
    /\ LET amount == PaystackAmount(reference) IN
       IF amount > MAX_FUND_LIMIT \/ PksByReference(reference) # {} \/ ~deposit_ok(amount)
       THEN FALSE
       ELSE /\ balance' = WalletCleanValue(balance + Quantize(amount))
            /\ transactions' = Append(transactions,
                    NewRow("funding", Quantize(amount), reference, "completed"))
            /\ ledger' = Append(ledger, [debit |-> 0, refund |-> 0])
    /\ UNCHANGED <<orch, calls, vtpass_client, hook, sweep, now, settings, user, gateway, peer>>

\* Wallet.deposit on a wallet of balance b: TRUE when it returns
deposit_ok_at(b, amount) ==
    /\ amount > 0
    /\ Quantize(amount) <= MAX_TRANSACTION
    /\ b + Quantize(amount) <= MAX_BALANCE
    /\ WalletCleanOK(b + Quantize(amount))
    /\ TransactionCleanOK(Quantize(amount))

\* the wallet lock of the user is held by a verify_payment request
WalletLocked == \E q \in Procs : orch[q].pc = "checked"

\* verify_payment of request p up to Wallet.deposit: the fund limit, the
\* wallet row locked, the duplicate check
verify_payment_check(p, reference) ==
    /\ orch[p].pc = "idle"
    /\ ~WalletLocked
    /\ IF PaystackAmount(reference) > MAX_FUND_LIMIT
       THEN Raise(p, "Amount cannot exceed limit")
       ELSE IF PksByReference(reference) # {}
       THEN Raise(p, "already processed")
       ELSE orch' = [orch EXCEPT ![p] = [IdleOrch EXCEPT !.pc = "checked",
                        !.line = "funding", !.request_id = reference]]
    /\ UNCHANGED <<balance, transactions, calls, vtpass_client, hook, sweep, now,
                   settings, user, ledger, gateway, peer>>

\* verify_payment of request p from Wallet.deposit on: the wallet saved, the
\* funding record inserted; a raise rolls the block back and the view
\* catches it
verify_payment_deposit(p) ==
    /\ orch[p].pc = "checked"
    /\ LET reference == orch[p].request_id
           amount == PaystackAmount(reference)
       IN  IF ~deposit_ok_at(balance, amount)
           THEN Raise(p, "ValueError") /\ UNCHANGED <<balance, transactions, ledger>>
           ELSE IF ReferenceTaken(reference)
           THEN Raise(p, "IntegrityError") /\ UNCHANGED <<balance, transactions, ledger>>
           ELSE /\ balance' = WalletCleanValue(balance + Quantize(amount))
                /\ transactions' = Append(transactions,
                        NewRow("funding", Quantize(amount), reference, "completed"))
                /\ ledger' = Append(ledger, [debit |-> 0, refund |-> 0])
                /\ Return(p)
    /\ UNCHANGED <<calls, vtpass_client, hook, sweep, now, settings, user, gateway, peer>>

\* verify_payment by the other user up to Wallet.deposit; the user asks
\* again once a request is over
peer_verify_payment_check(reference) ==
    /\ peer.pc # "checked"
    /\ IF PaystackAmount(reference) > MAX_FUND_LIMIT
       THEN peer' = [peer EXCEPT !.pc = "done", !.result = "Amount cannot exceed limit"]
       ELSE IF PksByReference(reference) # {}
       THEN peer' = [peer EXCEPT !.pc = "done", !.result = "already processed"]
       ELSE peer' = [peer EXCEPT !.pc = "checked", !.reference = reference]
    /\ UNCHANGED <<balance, transactions, orch, calls, vtpass_client, hook, sweep, now,
                   settings, user, ledger, gateway>>

\* verify_payment by the other user from Wallet.deposit on
peer_verify_payment_deposit ==
    /\ peer.pc = "checked"
    /\ LET amount == PaystackAmount(peer.reference) IN
           IF ~deposit_ok_at(peer.balance, amount)
           THEN /\ peer' = [peer EXCEPT !.pc = "done", !.result = "ValueError"]
                /\ UNCHANGED <<transactions, ledger>>
           ELSE IF ReferenceTaken(peer.reference)
           THEN /\ peer' = [peer EXCEPT !.pc = "done", !.result = "IntegrityError"]
                /\ UNCHANGED <<transactions, ledger>>
           ELSE /\ peer' = [peer EXCEPT !.pc = "done", !.result = "returned",
                                        !.balance = WalletCleanValue(@ + Quantize(amount))]
                /\ transactions' = Append(transactions,
                        NewRow("funding", Quantize(amount), peer.reference, "completed"))
                /\ ledger' = Append(ledger, [debit |-> 0, refund |-> 0])
    /\ UNCHANGED <<balance, orch, calls, vtpass_client, hook, sweep, now, settings,
                   user, gateway>>

\* ------------------------------------------------- the wallet's operations
\* amounts a caller can pass: zero, negative, below a kobo, ordinary, with
\* three decimals, at the transaction limit and just above it
LedgerAmounts ==
    {0, 0 - 5 * NGN, 4, 500 * NGN, 300 * NGN + 5, 800 * NGN,
     MAX_TRANSACTION, MAX_TRANSACTION + 4, MAX_TRANSACTION + 10}

\* Wallet.purchase(amount, description) called for request p: the checks on
\* the amount, the balance check, self.save(), Transaction.objects.create
Wallet_purchase(p, amount) ==
    /\ orch[p].pc = "idle"
    /\ LET q == Quantize(amount) IN
       IF amount <= 0
       THEN Raise(p, "ValueError: Amount must be positive")
            /\ UNCHANGED <<balance, transactions, ledger>>
       ELSE IF q > MAX_TRANSACTION
       THEN Raise(p, "ValueError: Transaction cannot exceed")
            /\ UNCHANGED <<balance, transactions, ledger>>
       ELSE IF balance < q
       THEN Raise(p, "ValueError: Insufficient funds")
            /\ UNCHANGED <<balance, transactions, ledger>>
       ELSE IF ~WalletCleanOK(balance - q)
       THEN Raise(p, "ValidationError")
            /\ UNCHANGED <<balance, transactions, ledger>>
       ELSE IF ~TransactionCleanOK(q)
       THEN Raise(p, "ValidationError")
            /\ balance' = WalletCleanValue(balance - q)
            /\ UNCHANGED <<transactions, ledger>>
       ELSE /\ balance' = WalletCleanValue(balance - q)
            /\ transactions' = Append(transactions,
                    NewRow("purchase", q, NoRef, "completed"))
            /\ ledger' = Append(ledger, [debit |-> balance - balance', refund |-> 0])
            /\ Return(p)
    /\ UNCHANGED <<calls, vtpass_client, hook, sweep, now, settings, user, gateway, peer>>

\* Wallet.deposit(amount) called for request p, reference left at its
\* default: the checks on the amount, the cap check, self.save(),
\* Transaction.objects.create
Wallet_deposit(p, amount) ==
    /\ orch[p].pc = "idle"
    /\ LET q == Quantize(amount) IN
       IF amount <= 0
       THEN Raise(p, "ValueError: Amount must be positive")
            /\ UNCHANGED <<balance, transactions, ledger>>
       ELSE IF q > MAX_TRANSACTION
       THEN Raise(p, "ValueError: Transaction cannot exceed")
            /\ UNCHANGED <<balance, transactions, ledger>>
       ELSE IF balance + q > MAX_BALANCE
       THEN Raise(p, "ValueError: Would exceed maximum balance")
            /\ UNCHANGED <<balance, transactions, ledger>>
       ELSE IF ~WalletCleanOK(balance + q)
       THEN Raise(p, "ValidationError")
            /\ UNCHANGED <<balance, transactions, ledger>>
       ELSE IF ~TransactionCleanOK(q)
       THEN Raise(p, "ValidationError")
            /\ balance' = WalletCleanValue(balance + q)
            /\ UNCHANGED <<transactions, ledger>>
       ELSE /\ balance' = WalletCleanValue(balance + q)
            /\ transactions' = Append(transactions,
                    NewRow("funding", q, NoRef, "completed"))
            /\ ledger' = Append(ledger, [debit |-> 0, refund |-> 0])
            /\ Return(p)
    /\ UNCHANGED <<calls, vtpass_client, hook, sweep, now, settings, user, gateway, peer>>

\* ------------------------------------------------------------------ clock
Tick ==
    /\ now \div TickStep < MaxTicks
    /\ now' = now + TickStep
    /\ UNCHANGED <<balance, transactions, orch, calls, vtpass_client, hook, sweep,
                   settings, user, gateway, peer, ledger>>

\* ---------------------------------------------------------- specification
Init ==
    /\ balance \in InitBalances
    /\ transactions = <<>>
    /\ ledger = <<>>
    /\ orch = [p \in Procs |-> IdleOrch]
    /\ calls = {}
    /\ vtpass_client = FALSE
    /\ hook = NoHook
    /\ sweep = IdleSweep
    /\ now = 0
    /\ settings \in [maintenance_mode : {FALSE}, fraud_checks_enabled : {TRUE},
                     VTPASS_API_KEY : {"api-key"}, VTPASS_SECRET_KEY : {None, "secret-key"}]
    /\ user = [id |-> 1, date_joined |-> 0 - DAY]
    /\ gateway = NoCall
    /\ peer = NoPeer

\* requests are interchangeable: "p2" is used once "p1" is in use
Free(p) == p = "p1" \/ orch["p1"].pc # "idle"

\* the purchase requests of the processes P for the amounts A, the provider
\* answering from R
Purchases(P, A, R) ==
    \/ \E p \in P, a \in A : Free(p) /\ purchase_airtime_start(p, a)
    \/ \E p \in P, a \in DATA_PLANS : Free(p) /\ purchase_data_start(p, a)
    \/ \E p \in P, a \in A, v \in {"000", "ERROR", "VTPassError"} :
            Free(p) /\ purchase_electricity_start(p, a, v)
    \/ \E p \in P : purchase_airtime_reserve(p)
    \/ \E p \in P : purchase_data_reserve(p)
    \/ \E p \in P : purchase_electricity_reserve(p)
    \/ \E p \in P : post_raises(p)
    \/ \E p \in P, r \in R : purchase_airtime_finalize(p, r[1], r[2])
    \/ \E p \in P, r \in R : purchase_data_finalize(p, r[1], r[2])
    \/ \E p \in P, r \in R : purchase_electricity_finalize(p, r[1], r[2])

\* webhook requests, signed by the provider or unsigned
Webhooks ==
    \E d \in WebhookPayloads(WebhookStatuses) : \E g \in WebhookSignatures(d) :
        vtpass_webhook(d, g, TRUE)

\* webhook requests signed by the provider
SignedWebhooks ==
    \E d \in WebhookPayloads({"delivered", "failed", "pending"}) :
        vtpass_webhook(d, Hmac("secret-key", d), FALSE)

Sweeps(observed) ==
    \/ \E m \in MaxAges : recheck_pending_vtu_select(m)
    \/ \E r \in RequeryReplies : recheck_pending_vtu_item(r, observed)
    \/ recheck_pending_vtu_return

Fundings == \E r \in PaystackRefs : verify_payment(r)

\* one purchase request at a time, with every other handler; the webhook
\* requests and the sweep counters are observed
Next == Purchases({"p1"}, RequestAmounts, ProviderReplies) \/ Webhooks \/ Sweeps(TRUE) \/ Fundings \/ Tick

Spec == Init /\ [][Next]_vars

\* two purchase requests of 500 naira in flight with every other handler, the
\* VTPass keys configured
InitPair == Init /\ settings.VTPASS_SECRET_KEY # None

NextPair ==
    Purchases(Procs, {500 * NGN}, OutcomeReplies) \/ SignedWebhooks \/ Sweeps(FALSE) \/ Fundings \/ Tick

SpecPair == InitPair /\ [][NextPair]_vars

\* one purchase request whose provider call is answered with a raw reply
NextGateway ==
    \/ \E a \in {500 * NGN} : purchase_airtime_start("p1", a)
    \/ \E a \in DATA_PLANS : purchase_data_start("p1", a)
    \/ \E a \in {500 * NGN} : purchase_electricity_start("p1", a, "000")
    \/ purchase_airtime_reserve("p1")
    \/ purchase_data_reserve("p1")
    \/ purchase_electricity_reserve("p1")
    \/ \E raw \in RawReplies : client_purchase_call("p1", raw)
    \/ purchase_resume("p1")

SpecGateway == InitPair /\ [][NextGateway]_vars

\* payments Paystack reports successful
FundingRefs == {<<"PS", 0, 1>>, <<"PS", 0, 2>>}

\* the user's wallet before the funding requests
FundedStart == 700 * NGN

InitFunding == Init /\ balance = FundedStart /\ settings.VTPASS_SECRET_KEY # None

\* verify_payment requests of the user and of another user, for the same
\* payments, in any order
NextFunding ==
    \/ \E p \in Procs, r \in FundingRefs : Free(p) /\ verify_payment_check(p, r)
    \/ \E p \in Procs : verify_payment_deposit(p)
    \/ \E r \in FundingRefs : peer_verify_payment_check(r)
    \/ peer_verify_payment_deposit

SpecFunding == InitFunding /\ [][NextFunding]_vars

\* the same two requests and handlers within one tick of the clock
NextWait ==
    Purchases(Procs, {500 * NGN}, OutcomeReplies) \/ SignedWebhooks \/ Sweeps(FALSE) \/ Fundings

SpecWait == InitPair /\ [][NextWait]_vars

\* ------------------------------------------------------- the policy gate
\* purchase requests at noon against the flags of AppSettings, an old or a
\* new account, and the purchases the user has already made today
Noon == 12 * HOUR

GateAmounts == {200 * NGN, 2000 * NGN, 6000 * NGN}

\* an earlier airtime purchase of the user, made at ts
HistoryRow(amount, status, ts) ==
    [transaction_type |-> "purchase", amount |-> amount,
     reference |-> _generate_request_id("airtime", 1, ts), status |-> status,
     timestamp |-> ts, requery_attempts |-> 0]

\* four purchases completed this morning, total in all
CompletedToday(total) ==
    [k \in 1..4 |->
        HistoryRow(IF k < 4 THEN 5000 * NGN ELSE total - 15000 * NGN, "completed", k * HOUR)]

\* six purchases of 200 that failed and were refunded within the last hour
FailedThisHour == [k \in 1..6 |-> HistoryRow(200 * NGN, "failed", Noon - k * MINUTE)]

Histories ==
    {<<>>, CompletedToday(19500 * NGN), CompletedToday(19900 * NGN), FailedThisHour}

\* what reserve and refund did for the rows of a history
HistoryLedger(h) ==
    [k \in DOMAIN h |->
        [debit |-> IF h[k].transaction_type = "purchase" THEN h[k].amount ELSE 0,
         refund |-> IF h[k].status = "failed" THEN h[k].amount ELSE 0]]

InitGate ==
    /\ balance = 10000 * NGN
    /\ now = Noon
    /\ \E h \in Histories :
        /\ transactions = h
        /\ ledger = HistoryLedger(h)
        /\ calls = {h[k].reference : k \in DOMAIN h}
        /\ vtpass_client = (h # <<>>)
        /\ user \in {[id |-> 1, date_joined |-> Noon - DAY]}
                    \cup (IF h = <<>> THEN {[id |-> 1, date_joined |-> Noon - MINUTE]}
                          ELSE {})
    /\ gateway = NoCall
    /\ peer = NoPeer
    /\ orch = [p \in Procs |-> IdleOrch]
    /\ hook = NoHook
    /\ sweep = IdleSweep
    /\ settings \in [maintenance_mode : BOOLEAN, fraud_checks_enabled : BOOLEAN,
                     VTPASS_API_KEY : {"api-key"}, VTPASS_SECRET_KEY : {"secret-key"}]

NextGate == Purchases({"p1"}, GateAmounts, OutcomeReplies)

SpecGate == InitGate /\ [][NextGate]_vars

\* ------------------------------------------- the policy gate, two requests
\* four purchases of 200 completed within the last hour
RecentFour == [k \in 1..4 |-> HistoryRow(200 * NGN, "completed", Noon - k * 10 * MINUTE)]

\* two requests of 500 naira at noon, the fraud checks on, by a user who is
\* one purchase short of the hourly count or 500 naira short of the daily limit
InitRace ==
    /\ balance = 10000 * NGN
    /\ now = Noon
    /\ \E h \in {RecentFour, CompletedToday(19500 * NGN)} :
        /\ transactions = h
        /\ ledger = HistoryLedger(h)
        /\ calls = {h[k].reference : k \in DOMAIN h}
    /\ vtpass_client = TRUE
    /\ user = [id |-> 1, date_joined |-> Noon - DAY]
    /\ gateway = NoCall
    /\ peer = NoPeer
    /\ orch = [p \in Procs |-> IdleOrch]
    /\ hook = NoHook
    /\ sweep = IdleSweep
    /\ settings = [maintenance_mode |-> FALSE, fraud_checks_enabled |-> TRUE,
                   VTPASS_API_KEY |-> "api-key", VTPASS_SECRET_KEY |-> "secret-key"]

NextRace == Purchases(Procs, {500 * NGN}, OutcomeReplies)

SpecRace == InitRace /\ [][NextRace]_vars

\* ------------------------------------------------------ amounts at the edge
\* purchase requests for amounts at the edges of Transaction.clean: zero,
\* negative, below a kobo, ordinary and above MAX_TRANSACTION, with the fraud
\* checks on or off
EdgeAmounts == {0, 0 - 500 * NGN, 4, 500 * NGN, MAX_TRANSACTION + 10}

InitAmounts ==
    /\ balance \in InitBalances
    /\ transactions = <<>>
    /\ ledger = <<>>
    /\ orch = [p \in Procs |-> IdleOrch]
    /\ calls = {}
    /\ vtpass_client = FALSE
    /\ hook = NoHook
    /\ sweep = IdleSweep
    /\ now = 0
    /\ settings \in [maintenance_mode : {FALSE}, fraud_checks_enabled : BOOLEAN,
                     VTPASS_API_KEY : {"api-key"}, VTPASS_SECRET_KEY : {"secret-key"}]
    /\ user = [id |-> 1, date_joined |-> 0 - DAY]
    /\ gateway = NoCall
    /\ peer = NoPeer

NextAmounts == Purchases({"p1"}, EdgeAmounts, OutcomeReplies)

SpecAmounts == InitAmounts /\ [][NextAmounts]_vars

\* ---------------------------------------------------------- the sweep
\* sweep runs over a table that holds a deposit, a completed purchase, two
\* purchases pending for longer than the default age and one made just now
SweepTable ==
    <<[HistoryRow(1000 * NGN, "completed", 0 - 30 * MINUTE)
            EXCEPT !.transaction_type = "funding", !.reference = <<"PS", 0, 1>>],
      HistoryRow(500 * NGN, "completed", 0 - 25 * MINUTE),
      HistoryRow(500 * NGN, "pending", 0 - 20 * MINUTE),
      HistoryRow(300 * NGN, "pending", 0 - 15 * MINUTE),
      HistoryRow(200 * NGN, "pending", 0)>>

InitSweep ==
    /\ balance = 700 * NGN
    /\ transactions = SweepTable
    /\ ledger = HistoryLedger(SweepTable)
    /\ calls = {SweepTable[k].reference : k \in 2..5}
    /\ vtpass_client = TRUE
    /\ orch = [p \in Procs |-> IdleOrch]
    /\ hook = NoHook
    /\ sweep = IdleSweep
    /\ now = 0
    /\ settings = [maintenance_mode |-> FALSE, fraud_checks_enabled |-> TRUE,
                   VTPASS_API_KEY |-> "api-key", VTPASS_SECRET_KEY |-> "secret-key"]
    /\ user = [id |-> 1, date_joined |-> 0 - DAY]
    /\ gateway = NoCall
    /\ peer = NoPeer

NextSweep == Sweeps(TRUE) \/ Tick

SpecSweep == InitSweep /\ [][NextSweep]_vars

\* ------------------------------------------------ the wallet's operations
\* two calls of the wallet's operations, one after the other
NextLedger ==
    \/ \E p \in Procs, a \in LedgerAmounts : Free(p) /\ Wallet_purchase(p, a)
    \/ \E p \in Procs, a \in LedgerAmounts : Free(p) /\ Wallet_deposit(p, a)

SpecLedger == Init /\ [][NextLedger]_vars

\* the handlers of Spec with the sweep scheduled again and again: the clock
\* advances, a run that is due starts and every run goes on to its end
\* (weak fairness); a run that selects every pending record recurs, and the
\* provider does not answer a requery with pending or an error for ever
\* (strong fairness)
TerminalReplies == {"404", "delivered", "failed"}

SweepFairness ==
    /\ WF_vars(Tick)
    /\ WF_vars(Sweeps(TRUE))
    /\ SF_vars(recheck_pending_vtu_select(0))
    /\ SF_vars(\E r \in TerminalReplies : recheck_pending_vtu_item(r, TRUE))

SpecFair == Init /\ [][Next]_vars /\ SweepFairness

\* ----------------------------------------------------------------- claims
\* the purchase rows of the table
PurchasePks == {i \in DOMAIN transactions : transactions[i].transaction_type = "purchase"}

Terminal == {"completed", "failed"}

\* C1: in every reachable state the wallet balance lies in [0, MAX_BALANCE],
\* whatever the interleaving of two purchases (reserve, finalize with
\* refund), deposits, webhook requests and sweep iterations.
C1_BalanceInRange == 0 <= balance /\ balance <= MAX_BALANCE

\* a refund was refused because it would have passed the cap
C1_RefundAtCap ==
    \E p \in Procs :
        /\ orch[p].result = "ValidationError" /\ orch[p].tx # 0
        /\ ledger[orch[p].tx].debit > 0
        /\ balance + transactions[orch[p].tx].amount > MAX_BALANCE

\* C11: convergence; under SweepFairness every purchase record that is
\* pending is, from some point on, completed or failed for good.
C11_Convergence ==
    \A i \in 1..2 :
        []((i \in PurchasePks /\ transactions[i].status = "pending")
            => <>[](i \in PurchasePks /\ transactions[i].status \in Terminal))

\* C12: lock discipline; a handler that moves a purchase record to completed
\* or failed reads the record and writes it under one hold of the wallet
\* lock, so the row it writes back is the row as it stands: a sweep iteration
\* never saves a row it read before another handler changed it.
C12_LockDiscipline ==
    [][\A r \in RequeryReplies :
        (recheck_pending_vtu_item(r, TRUE) /\ transactions' # transactions)
            => Head(sweep.queue).row = transactions[Head(sweep.queue).pk]]_vars

\* C13: reserve is atomic; a step creates a purchase record exactly when it
\* debits the wallet, the record is pending and the debit is its amount, and
\* a reserve block that aborts (InsufficientBalanceError, ValidationError,
\* IntegrityError) leaves the table and the balance as they were.
C13_ReserveAtomic ==
    [][LET created == /\ Len(transactions') = Len(transactions) + 1
                      /\ transactions'[Len(transactions')].transaction_type = "purchase"
           debited == balance' < balance
       IN  /\ created <=> debited
           /\ \A p \in Procs :
                (orch[p].pc = "reserve" /\ orch'[p].pc # "reserve") =>
                    \/ /\ created
                       /\ transactions'[Len(transactions')].status = "pending"
                       /\ balance' = Quantize(balance - orch[p].amount)
                    \/ /\ orch'[p].result \in
                            {"InsufficientBalanceError", "ValidationError", "IntegrityError"}
                       /\ transactions' = transactions
                       /\ balance' = balance]_vars

\* a reserve aborted on a duplicate reference beside the one that committed:
\* one record, one debit
C13_AbortedBesideCommitted ==
    \E p \in Procs :
        /\ orch[p].result = "IntegrityError"
        /\ Len(transactions) = 1
        /\ ledger[1].debit = transactions[1].amount
        /\ balance + ledger[1].debit \in InitBalances

\* C14: reference uniqueness; no two records, purchase or funding, share a
\* non-null reference, also when two reserves derive their reference from
\* the same millisecond.
C14_ReferenceUnique ==
    \A i, j \in DOMAIN transactions :
        (i # j /\ transactions[i].reference # NoRef)
            => transactions[i].reference # transactions[j].reference

\* a reserve collided on the reference of a record made in the same
\* millisecond and aborted; that record and a funding record are in the table
C14_CollidingReserveAborted ==
    \E p \in Procs : \E i, j \in DOMAIN transactions :
        /\ orch[p].result = "IntegrityError"
        /\ transactions[i].transaction_type = "purchase"
        /\ transactions[i].timestamp = now
        /\ transactions[j].transaction_type = "funding"

\* a purchase request of p is handled up to the policy gate and beyond
Started(p) == orch[p].pc = "idle" /\ orch'[p].pc # "idle"

\* C15: a policy violation aborts before any mutation; the step that ends a
\* purchase in FraudCheckError creates no record, leaves the balance alone
\* and issues no provider call, purchase or meter verification.
C15_ViolationBeforeMutation ==
    [][\A p \in Procs :
        (Started(p) /\ orch'[p].result = "FraudCheckError") =>
            /\ orch'[p].pc = "done"
            /\ transactions' = transactions
            /\ balance' = balance
            /\ ledger' = ledger
            /\ calls' = calls]_vars

\* a limit, not maintenance, has rejected a purchase
C15_RejectedByLimit ==
    \E p \in Procs :
        /\ orch[p].result = "FraudCheckError"
        /\ ~settings.maintenance_mode /\ settings.fraud_checks_enabled

\* C16: while maintenance mode is on, every purchase request ends in
\* FraudCheckError at the gate and no step changes the table, the balance or
\* the provider's calls, whatever the amount and the fraud toggle.
C16_MaintenanceRejectsAll ==
    [][settings.maintenance_mode =>
        /\ transactions' = transactions
        /\ balance' = balance
        /\ ledger' = ledger
        /\ calls' = calls
        /\ \A p \in Procs : Started(p) =>
                orch'[p].pc = "done" /\ orch'[p].result = "FraudCheckError"]_vars

\* a purchase was rejected under maintenance with the fraud checks off
C16_RejectedWithChecksOff ==
    \E p \in Procs :
        /\ orch[p].result = "FraudCheckError"
        /\ settings.maintenance_mode /\ ~settings.fraud_checks_enabled

\* C17: with the fraud checks off and maintenance off the gate accepts every
\* purchase; no request ends in FraudCheckError, whatever its amount and the
\* user's history.
C17_ChecksOffAcceptsAll ==
    [][(~settings.fraud_checks_enabled /\ ~settings.maintenance_mode) =>
        \A p \in Procs : Started(p) => orch'[p].result # "FraudCheckError"]_vars

\* with the checks off a purchase passed the gate that the enabled checks
\* would have stopped: above the single limit, after six purchases in the
\* hour, all of them failed
C17_AcceptedDespiteLimits ==
    \E p \in Procs :
        /\ ~settings.fraud_checks_enabled /\ ~settings.maintenance_mode
        /\ orch[p].pc = "reserve"
        /\ orch[p].amount > UNVERIFIED_SINGLE_LIMIT
        /\ failed_count > FAILED_COUNT_THRESHOLD
        /\ hourly_count >= UNVERIFIED_HOURLY_COUNT

\* C18: daily ceiling; with the fraud checks on, a purchase of amount a made
\* when today's completed purchases plus a exceed the daily limit ends in
\* FraudCheckError with no record, no debit and no call, on every line.
C18_DailyCeiling ==
    [][\A p \in Procs : \A a \in GateAmounts \cup DATA_PLANS :
        (/\ settings.fraud_checks_enabled
         /\ today_total + a > UNVERIFIED_DAILY_LIMIT
         /\ \/ purchase_airtime_start(p, a)
            \/ purchase_data_start(p, a)
            \/ \E v \in {"000", "ERROR", "VTPassError"} : purchase_electricity_start(p, a, v))
        => /\ orch'[p].result = "FraudCheckError"
           /\ transactions' = transactions
           /\ balance' = balance
           /\ calls' = calls]_vars

\* 19,900 completed today and a purchase was rejected that is within the
\* single limit: 200 more would pass the ceiling of 20,000
C18_RejectedAtCeiling ==
    \E p \in Procs :
        /\ orch[p].result = "FraudCheckError"
        /\ settings.fraud_checks_enabled /\ ~settings.maintenance_mode
        /\ today_total = 19900 * NGN
        /\ today_total + 200 * NGN > UNVERIFIED_DAILY_LIMIT

\* C19: electricity verifies the meter before reserve; a purchase is at its
\* reserve block only after the verification call was made, and a
\* verification that fails (a reply other than "000", or a Gateway error)
\* ends the purchase with no record and no debit.
C19_VerifyBeforeReserve ==
    [][\A p \in Procs :
        /\ (orch'[p].pc = "reserve" /\ orch'[p].line = "electricity")
                => MeterVerification(user.id) \in calls'
        /\ \A a \in RequestAmounts : \A v \in {"ERROR", "VTPassError"} :
                purchase_electricity_start(p, a, v) =>
                    /\ orch'[p].pc = "done"
                    /\ transactions' = transactions
                    /\ balance' = balance
                    /\ ledger' = ledger]_vars

\* the meter was verified, the verification failed, and nothing was written
C19_VerificationFailed ==
    \E p \in Procs :
        /\ orch[p].result = "MeterVerificationError"
        /\ MeterVerification(user.id) \in calls
        /\ transactions = <<>>
        /\ balance \in InitBalances

\* C20: success definition; on every line the finalize block returns with
\* the record completed exactly when the reply's code is "000" or "0000" and
\* its nested status is delivered or success.
C20_SuccessDefinition ==
    [][\A p \in Procs : \A r \in ProviderReplies :
        (\/ purchase_airtime_finalize(p, r[1], r[2])
         \/ purchase_data_finalize(p, r[1], r[2])
         \/ purchase_electricity_finalize(p, r[1], r[2]))
        => ((orch'[p].result = "returned"
                /\ transactions'[orch[p].tx].status = "completed")
            <=> (r[1] \in {"000", "0000"} /\ r[2] \in {"delivered", "success"}))]_vars

\* C2: conservation; every purchase record in status failed has had its
\* reserve debit credited back in full, whichever path (finalize, webhook,
\* sweep) set the status.
C2_FailedIsRefunded ==
    \A i \in PurchasePks :
        transactions[i].status = "failed" => ledger[i].refund = ledger[i].debit

\* C3: mutual exclusion; a reserve block that finds the balance below the
\* amount ends in InsufficientBalanceError with no record and no debit, and
\* one that finds the balance sufficient is never rejected for funds and, when
\* it commits, creates one record and debits the amount. Two requests that
\* the balance affords only one of thereby end with one reserve and one
\* rejection.
C3_MutualExclusion ==
    [][\A p \in Procs :
        (orch[p].pc = "reserve" /\ orch'[p].pc # "reserve") =>
            IF balance < orch[p].amount
            THEN /\ orch'[p].result = "InsufficientBalanceError"
                 /\ balance' = balance
                 /\ transactions' = transactions
            ELSE /\ orch'[p].result # "InsufficientBalanceError"
                 /\ orch'[p].pc = "wait" =>
                        /\ Len(transactions') = Len(transactions) + 1
                        /\ balance' = Quantize(balance - orch[p].amount)]_vars

\* of two requests the balance afforded one of, one holds the only record
\* and the other was rejected for funds
C3_OneReservedOneRejected ==
    \E p, q \in Procs :
        /\ p # q
        /\ orch[p].result = "InsufficientBalanceError"
        /\ orch[q].pc = "wait"
        /\ Len(transactions) = 1
        /\ balance < 500 * NGN
        /\ balance + ledger[orch[q].tx].debit >= 500 * NGN

\* C4: webhook idempotency; when the payload of the last accepted webhook
\* request is delivered again and its record is completed or failed, the
\* second delivery changes neither the wallet balance nor the record's status.
C4_WebhookIdempotent ==
    [][\A d \in WebhookPayloads(WebhookStatuses) : \A g \in WebhookSignatures(d) :
        (/\ hook.data = d /\ hook.http = 200
         /\ vtpass_webhook_response(d, g) = 200
         /\ \A i \in PksByReference(d.reference) : transactions[i].status \in Terminal
         /\ vtpass_webhook(d, g, TRUE))
        => /\ balance' = balance
           /\ \A i \in PksByReference(d.reference) :
                transactions'[i].status = transactions[i].status]_vars

\* C5: terminal statuses do not flip; a completed purchase record never
\* becomes failed and a failed one never becomes completed.
C5_NoTerminalFlip ==
    [][\A i \in PurchasePks :
        /\ transactions[i].status = "completed" => transactions'[i].status # "failed"
        /\ transactions[i].status = "failed" => transactions'[i].status # "completed"]_vars

\* C6: no regression to pending; a completed or failed purchase record never
\* becomes pending again.
C6_NoRegression ==
    [][\A i \in PurchasePks :
        transactions[i].status \in Terminal => transactions'[i].status # "pending"]_vars

\* C7: a completed purchase stays paid for; no refund has been credited and
\* kept for a purchase record in status completed.
C7_CompletedIsPaid ==
    \A i \in PurchasePks :
        transactions[i].status = "completed" =>
            /\ ledger[i].refund = 0
            /\ ledger[i].debit = transactions[i].amount

\* C8: no double refund; the refunds credited for one purchase record never
\* add up to more than the record's amount.
C8_RefundWithinAmount ==
    \A i \in PurchasePks : ledger[i].refund <= transactions[i].amount

\* C9: every committed reserve is followed by a Gateway purchase call; no
\* orchestration ends, or waits, with a record created and debited whose
\* reference the provider was never called for.
C9_ReserveIsCalled ==
    \A i \in PurchasePks : transactions[i].reference \in calls

\* C10: a Gateway error (VTPassError out of the purchase call) ends the
\* orchestration with that error and leaves the record, the wallet balance
\* and the refunds as they were: no failed mark, no refund.
C10_ErrorLeavesPending ==
    [][\A p \in Procs :
        (orch[p].pc = "wait" /\ orch'[p].result = "VTPassError") =>
            /\ orch'[p].pc = "done"
            /\ balance' = balance
            /\ transactions' = transactions
            /\ ledger' = ledger]_vars

\* a purchase call has raised and its record is pending, debited, not refunded
C10_PendingAfterError ==
    \E p \in Procs :
        /\ orch[p].result = "VTPassError" /\ orch[p].tx # 0
        /\ transactions[orch[p].tx].status = "pending"
        /\ ledger[orch[p].tx].debit = transactions[orch[p].tx].amount
        /\ ledger[orch[p].tx].refund = 0

\* C21: one finalize rule; whichever line a finalize block runs on, the
\* status it gives the record for a provider result (code, nested status) is
\* the status each of the three lines' rules gives for that result.
C21_SameFinalizeRule ==
    [][\A p \in Procs : \A r \in ProviderReplies :
        ((\/ purchase_airtime_finalize(p, r[1], r[2])
          \/ purchase_data_finalize(p, r[1], r[2])
          \/ purchase_electricity_finalize(p, r[1], r[2]))
            /\ orch'[p].result = "returned")
        => /\ transactions'[orch[p].tx].status = purchase_airtime_rule(r[1], r[2])
           /\ transactions'[orch[p].tx].status = purchase_data_rule(r[1], r[2])
           /\ transactions'[orch[p].tx].status = purchase_electricity_rule(r[1], r[2])]_vars

C24_LedgerErrors ==
    [][\A p \in Procs : \A a \in LedgerAmounts :
        LET invalid == a <= 0 \/ a > MAX_TRANSACTION
            failed(errors) == /\ orch'[p].result \in errors
                              /\ balance' = balance
                              /\ transactions' = transactions
            InvalidAmount == {"ValueError: Amount must be positive",
                              "ValueError: Transaction cannot exceed"}
        IN  /\ Wallet_purchase(p, a) =>
                /\ invalid => failed(InvalidAmount)
                /\ (~invalid /\ a > balance)
                        => failed({"ValueError: Insufficient funds"})
            /\ Wallet_deposit(p, a) =>
                /\ invalid => failed(InvalidAmount)
                /\ (~invalid /\ balance + a > MAX_BALANCE)
                        => failed({"ValueError: Would exceed maximum balance"})]_vars

\* C25: synchronous failure; on every line, a finalize block that receives an
\* explicit failure (nested status failed) or an error code with no nested
\* status (016, or the ERROR of a body that is no object or has no code)
\* marks the record failed and credits the wallet by the record's amount,
\* wherever that credit fits under MAX_BALANCE.
C25_FailureIsRefunded ==
    [][\A p \in Procs : \A r \in ProviderReplies :
        LET pk == orch[p].tx
            failure == r[2] = "failed" \/ (r[1] \in {"016", "ERROR"} /\ r[2] = "")
        IN  (/\ failure
             /\ \/ purchase_airtime_finalize(p, r[1], r[2])
                \/ purchase_data_finalize(p, r[1], r[2])
                \/ purchase_electricity_finalize(p, r[1], r[2])
             /\ balance + transactions[pk].amount <= MAX_BALANCE)
            => /\ transactions'[pk].status = "failed"
               /\ balance' = balance + transactions[pk].amount]_vars

\* C26: synchronous pending; on every line, a finalize block that receives
\* the nested status pending, or a status that is neither a success nor a
\* failure (initiated), leaves the record pending and the balance as the
\* reserve left it. (The provider_status column that holds the echo is not a
\* column of the model's rows.)
C26_PendingStaysReserved ==
    [][\A p \in Procs : \A r \in ProviderReplies :
        (/\ r[2] \in {"pending", "processing", "initiated"}
         /\ \/ purchase_airtime_finalize(p, r[1], r[2])
            \/ purchase_data_finalize(p, r[1], r[2])
            \/ purchase_electricity_finalize(p, r[1], r[2]))
        => /\ transactions'[orch[p].tx].status = "pending"
           /\ balance' = balance]_vars

\* C27: one update rule; for a pending purchase record and a provider status
\* on which the three finalize rules agree (delivered, failed, pending), a
\* webhook request answered 200 and a sweep iteration leave the record with
\* the status the finalize rule gives, and move the balance as the finalize
\* block does: by the record's amount when the status is failed (where that
\* fits under MAX_BALANCE), and not at all otherwise.
C27_OneUpdateRule ==
    [][\A s \in {"delivered", "failed", "pending"} :
        LET outcome == purchase_airtime_rule("000", s)
            applied(i) ==
                (transactions[i].status = "pending"
                    /\ balance + transactions[i].amount <= MAX_BALANCE)
                => /\ transactions'[i].status = outcome
                   /\ balance' = balance + (IF outcome = "failed"
                                            THEN transactions[i].amount ELSE 0)
        IN  /\ \A d \in WebhookPayloads({s}) : \A g \in WebhookSignatures(d) :
                (hook'.data = d /\ vtpass_webhook(d, g, TRUE) /\ hook'.http = 200)
                    => \A i \in PksByReference(d.reference) : applied(i)
            /\ recheck_pending_vtu_item(s, TRUE) => applied(Head(sweep.queue).pk)]_vars

\* C28: what a sweep touches; a run selects only rows that are pending, of
\* purchase type and at least max_age_minutes old when it selects, and an
\* iteration makes one requery, for the row at the head of the selection,
\* and leaves every other row (deposits, terminal rows, rows too young to be
\* selected) and the balance as they were.
C28_SweepFrame ==
    [][/\ \A m \in MaxAges :
            recheck_pending_vtu_select(m) =>
                \A k \in 1..Len(sweep'.queue) :
                    LET i == sweep'.queue[k].pk IN
                    /\ transactions[i].status = "pending"
                    /\ transactions[i].transaction_type = "purchase"
                    /\ transactions[i].timestamp + m * MINUTE <= now
       /\ \A r \in RequeryReplies :
            recheck_pending_vtu_item(r, TRUE) =>
                /\ \A i \in DOMAIN transactions :
                        i # Head(sweep.queue).pk => transactions'[i] = transactions[i]
                /\ sweep'.stats.checked = sweep.stats.checked + 1
                /\ balance' = balance]_vars

\* a run with the default age is over after two requeries: the two old
\* pending purchases are settled, and the deposit, the completed purchase and
\* the purchase made just now are as they were
C28_YoungLeftAlone ==
    /\ now = 0 /\ Len(transactions) = 5
    /\ sweep.pc = "loop" /\ sweep.queue = <<>> /\ sweep.stats.checked = 2
    /\ transactions[3].status \in Terminal /\ transactions[4].status \in Terminal
    /\ transactions[5].status = "pending" /\ transactions[5].timestamp = now
    /\ transactions[1].transaction_type = "funding"
    /\ transactions[1].status = "completed" /\ transactions[2].status = "completed"

\* C29: still pending; a sweep iteration whose requery reports the record
\* still pending adds one to the record's requery_attempts and leaves its
\* status, its amount and the balance as they were.
C29_AttemptCounted ==
    [][recheck_pending_vtu_item("pending", TRUE) =>
        LET pk == Head(sweep.queue).pk IN
        /\ transactions'[pk].requery_attempts = transactions[pk].requery_attempts + 1
        /\ transactions'[pk].status = transactions[pk].status
        /\ transactions'[pk].amount = transactions[pk].amount
        /\ balance' = balance]_vars

\* C30: a Gateway error in a sweep; the iteration whose requery raises counts
\* one error and one checked record and nothing else, leaves the table and
\* the balance as they were, and the run goes on with the rows still
\* selected: it ends only when every selected row has had its iteration.
C30_ErrorDoesNotAbort ==
    [][/\ recheck_pending_vtu_item("timeout", TRUE) =>
            /\ sweep'.stats = [sweep.stats EXCEPT !.checked = @ + 1, !.errors = @ + 1]
            /\ transactions' = transactions
            /\ balance' = balance
            /\ sweep'.pc = "loop"
            /\ sweep'.queue = Tail(sweep.queue)
       /\ (sweep.pc = "loop" /\ sweep'.pc = "loop" /\ sweep' # sweep)
            => Len(sweep'.queue) = Len(sweep.queue) - 1
       /\ (sweep.pc = "loop" /\ sweep'.pc = "idle") => sweep.queue = <<>>]_vars

\* a run over three selected rows is over: the requery of the newest raised,
\* that row is as it was, and the two rows after it were requeried and settled
C30_SettledAfterError ==
    /\ now = 0 /\ Len(transactions) = 5
    /\ sweep.pc = "loop" /\ sweep.queue = <<>>
    /\ sweep.stats.checked = 3 /\ sweep.stats.errors = 1
    /\ sweep.stats.completed = 1 /\ sweep.stats.failed = 1
    /\ transactions[5].status = "pending"
    /\ transactions[4].status \in Terminal /\ transactions[3].status \in Terminal

\* C31: a refund always fits; while a purchase waits for the provider's
\* reply, crediting its record's amount back would not take the balance past
\* MAX_BALANCE, whatever deposits were credited since the reserve, and no
\* finalize block ends in the ValidationError of Wallet.clean.
C31_RefundAlwaysFits ==
    \A p \in Procs :
        /\ orch[p].pc = "wait"
            => balance + transactions[orch[p].tx].amount <= MAX_BALANCE
        /\ (orch[p].pc = "done" /\ orch[p].tx # 0)
            => orch[p].result # "ValidationError"

\* C32: amounts in range; every purchase record carries an amount in
\* (0, MAX_TRANSACTION], and no request for an amount outside that range gets
\* past its reserve block.
C32_AmountInRange ==
    /\ \A i \in PurchasePks :
            0 < transactions[i].amount /\ transactions[i].amount <= MAX_TRANSACTION
    /\ \A p \in Procs :
            orch[p].pc = "wait"
                => 0 < orch[p].amount /\ orch[p].amount <= MAX_TRANSACTION

\* C33: hourly ceiling; with the fraud checks on, the purchase records of the
\* user made within the last hour are never more than the tier's hourly
\* count, also when two of the user's requests run at once.
C33_HourlyCeiling ==
    settings.fraud_checks_enabled => hourly_count <= get_transaction_limits.hourly_count

\* C39: daily ceiling; with the fraud checks on, the amounts of the user's
\* purchase records of today that are completed never add up to more than the
\* tier's daily limit, also when a purchase is still pending while the policy
\* check of a later one runs and is completed afterwards.
C39_DailyCeilingHolds ==
    settings.fraud_checks_enabled => today_total <= get_transaction_limits.daily_limit

\* C34: new-account cooldown; with the fraud checks on, a purchase by an
\* account younger than 5 minutes that passes every other check is rejected
\* exactly when its amount is above the reduced ceiling.
C34_CooldownCeiling ==
    [][\A p \in Procs : \A a \in GateAmounts :
        (/\ purchase_airtime_start(p, a)
         /\ settings.fraud_checks_enabled /\ check_maintenance_mode
         /\ now - user.date_joined < 5 * MINUTE
         /\ check_transaction_limits(a)
         /\ failed_count <= FAILED_COUNT_THRESHOLD)
        => (orch'[p].result = "FraudCheckError" <=> a > COOLDOWN_CEILING)]_vars

\* C35: no lock across the provider call; a finalize block that returns has
\* worked on the wallet and the record as they stand after whatever was
\* committed while the call waited: the balance moves from its current value
\* by the record's amount on failed and not at all otherwise, the record
\* keeps every column but its status, and no other row changes.
C35_FinalizeRereads ==
    [][\A p \in Procs : \A r \in OutcomeReplies :
        LET pk == orch[p].tx IN
        (/\ orch[p].pc = "wait" /\ orch'[p].result = "returned"
         /\ \/ purchase_airtime_finalize(p, r[1], r[2])
            \/ purchase_data_finalize(p, r[1], r[2])
            \/ purchase_electricity_finalize(p, r[1], r[2]))
        => /\ balance' - balance = (IF transactions'[pk].status = "failed"
                                    THEN transactions[pk].amount ELSE 0)
           /\ transactions'[pk] =
                    [transactions[pk] EXCEPT !.status = transactions'[pk].status]
           /\ \A i \in DOMAIN transactions \ {pk} :
                    transactions'[i] = transactions[i]]_vars

\* a purchase waits for the provider while a deposit and a second purchase
\* were committed after its reserve and a webhook has already settled its
\* record: the wallet is no longer as the call read it
C35_CommittedDuringWait ==
    \E p \in Procs :
        /\ orch[p].pc = "wait"
        /\ orch[p].wallet # balance
        /\ transactions[orch[p].tx].status \in Terminal
        /\ \E i, j \in DOMAIN transactions :
            /\ i > orch[p].tx /\ transactions[i].transaction_type = "funding"
            /\ j > orch[p].tx /\ transactions[j].transaction_type = "purchase"

\* C36: purchase normalization in the Gateway. A transport failure (connect
\* timeout, read timeout, other network error, non-JSON body) is raised as
\* VTPassError and no result is returned; a parsed reply that is not an
\* object is returned as a result with code "ERROR"; a reply object without
\* a code is given code "ERROR" and keeps its other fields; a reply object
\* with a code is returned as it is; every returned result carries a code.
\* The raised error ends the purchase call with that error.
C36_PurchaseNormalization ==
    /\ gateway.for # None =>
        LET raw == gateway.raw
            res == gateway.result
        IN  /\ raw.kind \in TransportFailures =>
                    res.raised = "VTPassError" /\ res.data = NoJson
            /\ raw.kind = "JSON" =>
                    /\ res.raised = None
                    /\ res.data.type = "dict"
                    /\ "code" \in res.data.keys
            /\ raw.kind = "JSON" /\ raw.json.type # "dict" =>
                    res.data.code = "ERROR"
            /\ raw.kind = "JSON" /\ raw.json.type = "dict" /\ "code" \notin raw.json.keys =>
                    /\ res.data.code = "ERROR"
                    /\ res.data.keys = raw.json.keys \cup {"code"}
                    /\ res.data.status = raw.json.status
            /\ raw.kind = "JSON" /\ raw.json.type = "dict" /\ "code" \in raw.json.keys =>
                    res.data = raw.json
    /\ \A p \in Procs :
            gateway.for = p /\ orch[p].pc = "done" =>
                (orch[p].result = "VTPassError") = (gateway.raw.kind \in TransportFailures)

\* an airtime call answered by a JSON string: the result carries code
\* "ERROR", and the purchase went on to fail its record
C36_NonObjectReply ==
    /\ gateway.for = "p1"
    /\ gateway.raw.kind = "JSON" /\ gateway.raw.json.type = "str"
    /\ gateway.result.data.code = "ERROR"
    /\ orch["p1"].pc = "done" /\ orch["p1"].line = None
    /\ orch["p1"].tx # 0
    /\ transactions[orch["p1"].tx].status = "failed"
    /\ transactions[orch["p1"].tx].reference[1] = RefPrefix("airtime")

\* C37: the sweep's counters. A run starts with every counter at zero and
\* as many records to go as the selection holds; each record of the loop
\* raises checked by one and exactly one of completed, failed, still_pending
\* and errors by one; so at every point of the run, and when it returns,
\* checked = completed + failed + still_pending + errors, and checked plus
\* the records still to go is the number selected.
C37_CountersAddUp ==
    [][/\ \A m \in MaxAges :
            recheck_pending_vtu_select(m) =>
                /\ sweep'.stats = ZeroStats
                /\ Len(sweep'.queue) = Cardinality(pending_qs(m))
                /\ {sweep'.queue[i].pk : i \in 1..Len(sweep'.queue)} = pending_qs(m)
       /\ sweep.pc = "loop" /\ sweep'.pc = "loop" /\ sweep' # sweep =>
            LET Outcomes == {"completed", "failed", "still_pending", "errors"}
                raised == {k \in Outcomes : sweep'.stats[k] # sweep.stats[k]}
            IN  /\ sweep'.stats.checked = sweep.stats.checked + 1
                /\ Len(sweep'.queue) = Len(sweep.queue) - 1
                /\ Cardinality(raised) = 1
                /\ \A k \in raised : sweep'.stats[k] = sweep.stats[k] + 1
       /\ sweep'.pc = "loop" =>
            sweep'.stats.checked = sweep'.stats.completed + sweep'.stats.failed
                                   + sweep'.stats.still_pending + sweep'.stats.errors
      ]_vars

\* a run over three records is over: one completed, one still pending, one
\* whose requery raised
C37_RunOfThree ==
    /\ sweep.pc = "loop" /\ sweep.queue = <<>>
    /\ sweep.stats = [checked |-> 3, completed |-> 1, failed |-> 0,
                      still_pending |-> 1, errors |-> 1]

\* C38: wallet funding is idempotent per payment reference. Whatever the
\* order of the verify_payment requests of the user and of another user for
\* the same payments, one after the other or overlapping, at most one funding
\* record exists per reference, and the two wallets together hold exactly
\* one credit of the payment's amount per funding record.
C38_FundedOncePerReference ==
    /\ \A r \in FundingRefs : Cardinality(PksByReference(r)) <= 1
    /\ \A i \in DOMAIN transactions :
            /\ transactions[i].transaction_type = "funding"
            /\ transactions[i].reference \in FundingRefs
    /\ balance + peer.balance
         = FundedStart + Len(transactions) * Quantize(PaystackAmount(<<"PS", 0, 1>>))

\* the other user's request passed the duplicate check, the user's request
\* for the same payment committed first, and the other user's insert was
\* refused; a later request of the user found the payment processed
C38_SecondInsertRefused ==
    /\ peer.pc = "done" /\ peer.result = "IntegrityError" /\ peer.balance = 0
    /\ PksByReference(peer.reference) # {}
    /\ \E p \in Procs : orch[p].pc = "done" /\ orch[p].result = "already processed"
    /\ balance = FundedStart + Quantize(PaystackAmount(peer.reference))

\* C40: one amount per purchase. For every purchase record the amount the
\* reserve removed from the wallet is the amount stored on the record, and
\* what a failing finalize credited back is nothing or that same amount,
\* also for request amounts with more than two decimal places.
C40_OneAmountPerPurchase ==
    \A i \in PurchasePks :
        /\ ledger[i].debit = transactions[i].amount
        /\ ledger[i].refund \in {0, transactions[i].amount}

====
